---- MODULE Spec2Model ----
(***************************************************************************)
(* TonyPi pose mimic: the per-frame mapping from pose landmarks to servo  *)
(* commands (scripts/tonypi_pose_mimic.py), with its smoothing memory and *)
(* the main loop that feeds it.                                           *)
(*                                                                         *)
(* Numbers.  Landmark x and y are the rationals x/XYDen, y/XYDen and z is  *)
(* z/ZDen; both denominators are powers of two, so every landmark value   *)
(* is an exact double.  Angles are whole degrees as the code truncates    *)
(* them.  val_map is computed exactly as a fraction and int() truncates   *)
(* it toward zero.                                                        *)
(***************************************************************************)
EXTENDS Integers, Sequences, FiniteSets, TLC

\* ---------------------------------------------------------------- bounds
\* The main loop is cut after MaxFrames frames.
MaxFrames == 3
\* Frame size in pixels (image.shape).
Width == 8
Height == 8
\* Denominators of the landmark coordinates.
XYDen == 8
ZDen == 64

\* ------------------------------------------------------ program constants
SERVO_MIN == 125
SERVO_MAX == 875
SMOOTHING_THRESHOLD == 25

\* Python's None for an angle is the empty tuple, a value a is <<a>>.
NoAngle == <<>>

\* ----------------------------------------------------------- arithmetic
\* Division truncating toward zero (Python's int() of a quotient), d > 0.
TruncDiv(n, d) == IF n >= 0 THEN n \div d ELSE -((-n) \div d)

Abs(n) == IF n < 0 THEN -n ELSE n

\* val_map: (x - in_min) * (out_max - out_min) / (in_max - in_min) + out_min
\* as the exact fraction num/den.  x, in_min and in_max are in one unit.
val_map(x, in_min, in_max, out_min, out_max) ==
    [num |-> (x - in_min) * (out_max - out_min) + out_min * (in_max - in_min),
     den |-> in_max - in_min]

\* int(q): truncation toward zero of the fraction q (den > 0).
int(q) == TruncDiv(q.num, q.den)

clamp_servo_nomax(value) == IF value < SERVO_MIN THEN SERVO_MIN ELSE value

\* clamp_servo: max(min_val, min(max_val, value)) with the default limits.
clamp_servo(value) ==
    LET m == IF SERVO_MAX < value THEN SERVO_MAX ELSE value
    IN  IF SERVO_MIN > m THEN SERVO_MIN ELSE m

\* tan(k degrees) * 10^6, rounded, for k = 1..89.
TanE6 ==
    <<17455, 34921, 52408, 69927, 87489, 105104, 122785, 140541, 158384,
      176327, 194380, 212557, 230868, 249328, 267949, 286745, 305731,
      324920, 344328, 363970, 383864, 404026, 424475, 445229, 466308,
      487733, 509525, 531709, 554309, 577350, 600861, 624869, 649408,
      674509, 700208, 726543, 753554, 781286, 809784, 839100, 869287,
      900404, 932515, 965689, 1000000, 1035530, 1072369, 1110613, 1150368,
      1191754, 1234897, 1279942, 1327045, 1376382, 1428148, 1482561,
      1539865, 1600335, 1664279, 1732051, 1804048, 1880726, 1962611,
      2050304, 2144507, 2246037, 2355852, 2475087, 2605089, 2747477,
      2904211, 3077684, 3270853, 3487414, 3732051, 4010781, 4331476,
      4704630, 5144554, 5671282, 6313752, 7115370, 8144346, 9514364,
      11430052, 14300666, 19081137, 28636253, 57289962>>

RECURSIVE Gcd(_, _)
Gcd(a, b) == IF b = 0 THEN a ELSE Gcd(b, a % b)

\* The largest k in lo..hi with tan(k degrees) * 10^6 <= q, where
\* tan(lo degrees) * 10^6 <= q (tan 0 = 0), by bisection.
RECURSIVE LastTanBelow(_, _, _)
LastTanBelow(lo, hi, q) ==
    IF lo = hi THEN lo
    ELSE LET mid == (lo + hi + 1) \div 2
         IN  IF TanE6[mid] <= q THEN LastTanBelow(mid, hi, q)
             ELSE LastTanBelow(lo, mid - 1, q)

\* Whole degrees below atan(s/c) for s > 0, c > 0 (s < 2000).
FloorAtanDeg(s, c) == LastTanBelow(0, 89, (s * 1000000) \div c)

\* int(degrees(arctan2(s, c))) for s >= 0, (s, c) # (0, 0), s and c
\* without a common factor.  In the second quadrant the angle is 180 minus
\* atan(s/-c), which is a whole number of degrees only at 135.
Atan2DegPos(s, c) ==
    IF s = 0 THEN (IF c > 0 THEN 0 ELSE 180)
    ELSE IF c = 0 THEN 90
    ELSE IF c > 0 THEN FloorAtanDeg(s, c)
    ELSE IF s = -c THEN 135
    ELSE 179 - FloorAtanDeg(s, -c)

\* arctan2 depends on the direction of (c, s) only: divide by the gcd.
Atan2DegRed(s, c) ==
    LET g == Gcd(Abs(s), Abs(c))
    IN  Atan2DegPos(s \div g, IF c >= 0 THEN c \div g ELSE -((-c) \div g))

\* int(np.degrees(np.arctan2(sin, cos))): truncated toward zero.
Atan2Deg(s, c) == IF s >= 0 THEN Atan2DegRed(s, c) ELSE -Atan2DegRed(-s, c)

IsZero(v) == v[1] = 0 /\ v[2] = 0

vector_2d_angle_zero(v1, v2) ==
    IF IsZero(v1) \/ IsZero(v2) THEN <<0>>
    ELSE <<Atan2Deg(v1[1] * v2[2] - v1[2] * v2[1],
                    v1[1] * v2[1] + v1[2] * v2[2])>>

\* vector_2d_angle: None when either vector has norm 0, else the signed
\* angle from v1 to v2 in whole degrees.
vector_2d_angle(v1, v2) ==
    IF IsZero(v1) \/ IsZero(v2) THEN NoAngle
    ELSE <<Atan2Deg(v1[1] * v2[2] - v1[2] * v2[1],
                    v1[1] * v2[1] + v1[2] * v2[2])>>

Sub(p, q) == <<p[1] - q[1], p[2] - q[2]>>

\* ---------------------------------------------------------------- engine
ServoCommand(servo_id, position, name) ==
    [servo_id |-> servo_id, position |-> position, name |-> name]

\* landmarks[idx] raises IndexError when idx is not in the list.
Has(landmarks, idxs) == idxs \subseteq DOMAIN landmarks

\* get_point: [int(lm.x * width), int(lm.y * height)]
get_point(landmarks, idx, width, height) ==
    <<TruncDiv(landmarks[idx].x * width, XYDen),
      TruncDiv(landmarks[idx].y * height, XYDen)>>

\* self.last_servos[servo_id] = new_value
Put(last, servo_id, new_value) ==
    [i \in DOMAIN last \cup {servo_id} |->
        IF i = servo_id THEN new_value ELSE last[i]]

smooth_servo_always_store(last, servo_id, new_value) ==
    IF servo_id \in DOMAIN last
       /\ Abs(last[servo_id] - new_value) < SMOOTHING_THRESHOLD
    THEN [last |-> Put(last, servo_id, new_value), value |-> last[servo_id]]
    ELSE [last |-> Put(last, servo_id, new_value), value |-> new_value]

smooth_servo_neutral(last, servo_id, new_value) ==
    LET p == IF servo_id \in DOMAIN last THEN last[servo_id] ELSE 500
    IN  IF Abs(p - new_value) < SMOOTHING_THRESHOLD
        THEN [last |-> Put(last, servo_id, p), value |-> p]
        ELSE [last |-> Put(last, servo_id, new_value), value |-> new_value]

smooth_servo_wide(last, servo_id, new_value) ==
    IF servo_id \in DOMAIN last
       /\ Abs(last[servo_id] - new_value) < 2 * SMOOTHING_THRESHOLD
    THEN [last |-> last, value |-> last[servo_id]]
    ELSE [last |-> Put(last, servo_id, new_value), value |-> new_value]

smooth_servo_le(last, servo_id, new_value) ==
    IF servo_id \in DOMAIN last
       /\ Abs(last[servo_id] - new_value) <= SMOOTHING_THRESHOLD
    THEN [last |-> last, value |-> last[servo_id]]
    ELSE [last |-> Put(last, servo_id, new_value), value |-> new_value]

\* smooth_servo: the stored value is re-emitted when the new one is closer
\* than the threshold; otherwise the new one is stored and emitted.
smooth_servo(last, servo_id, new_value) ==
    IF servo_id \in DOMAIN last
       /\ Abs(last[servo_id] - new_value) < SMOOTHING_THRESHOLD
    THEN [last |-> last, value |-> last[servo_id]]
    ELSE [last |-> Put(last, servo_id, new_value), value |-> new_value]

\* servoN = self.smooth_servo(N, servoN); commands.append(ServoCommand(...))
Emit(st, servo_id, new_value, name) ==
    LET s == smooth_servo(st.last, servo_id, new_value)
    IN  [last |-> s.last,
         commands |-> Append(st.commands,
                             ServoCommand(servo_id, s.value, name))]

Start(last) == [last |-> last, commands |-> <<>>]
Raised(last) == [last |-> last, commands |-> <<>>, raised |-> TRUE]
Returned(st) == [last |-> st.last, commands |-> st.commands, raised |-> FALSE]

Angle2(vs) == vector_2d_angle(vs[1], vs[2])

\* The vector pairs <<v1, v2>> of the four planar arm angles.
ArmVectors(landmarks, width, height) ==
    LET left_shoulder == get_point(landmarks, 11, width, height)
        right_shoulder == get_point(landmarks, 12, width, height)
        left_elbow == get_point(landmarks, 13, width, height)
        right_elbow == get_point(landmarks, 14, width, height)
        left_wrist == get_point(landmarks, 15, width, height)
        right_wrist == get_point(landmarks, 16, width, height)
        left_ref == <<width, left_shoulder[2]>>
        right_ref == <<0, right_shoulder[2]>>
    IN  [left_shoulder |-> <<Sub(left_shoulder, left_ref),
                             Sub(left_shoulder, left_elbow)>>,
         left_elbow |-> <<Sub(left_elbow, left_shoulder),
                          Sub(left_wrist, left_elbow)>>,
         right_shoulder |-> <<Sub(right_shoulder, right_ref),
                              Sub(right_shoulder, right_elbow)>>,
         right_elbow |-> <<Sub(right_elbow, right_shoulder),
                           Sub(right_wrist, right_elbow)>>]

\* The four planar arm angles of a frame, in the order of the all() test.
ArmAngles(landmarks, width, height) ==
    LET v == ArmVectors(landmarks, width, height)
    IN  [left_shoulder_angle |-> Angle2(v.left_shoulder),
         left_elbow_angle |-> Angle2(v.left_elbow),
         right_shoulder_angle |-> Angle2(v.right_shoulder),
         right_elbow_angle |-> Angle2(v.right_elbow)]

\* clamp_servo(int(val_map(angle, -90, 90, SERVO_MIN, SERVO_MAX)))
ArmCandidate(angle) ==
    clamp_servo(int(val_map(angle, -90, 90, SERVO_MIN, SERVO_MAX)))

\* calculate_arm_servos: servos 15, 14, 7, 6, emitted only when all four
\* angles are defined.
calculate_arm_servos(last, landmarks, width, height) ==
    IF ~Has(landmarks, {11, 12, 13, 14, 15, 16}) THEN Raised(last)
    ELSE
    LET a == ArmAngles(landmarks, width, height)
        s0 == Start(last)
    IN  IF /\ a.left_shoulder_angle # NoAngle
           /\ a.left_elbow_angle # NoAngle
           /\ a.right_shoulder_angle # NoAngle
           /\ a.right_elbow_angle # NoAngle
        THEN LET s1 == Emit(s0, 15, ArmCandidate(a.left_shoulder_angle[1]),
                            "R_shoulder_side")
                 s2 == Emit(s1, 14, ArmCandidate(a.left_elbow_angle[1]),
                            "R_elbow")
                 s3 == Emit(s2, 7, ArmCandidate(a.right_shoulder_angle[1]),
                            "L_shoulder_side")
                 s4 == Emit(s3, 6, ArmCandidate(a.right_elbow_angle[1]),
                            "L_elbow")
             IN  Returned(s4)
        ELSE Returned(s0)

\* A depth difference in units of 1/(10 * ZDen), the unit in which the
\* input ranges -0.3..0.3 and -0.2..0.2 are whole numbers.
ZDiff(landmarks, a, b) == 10 * (landmarks[a].z - landmarks[b].z)

\* int(val_map(left_z_diff, -0.3, 0.3, 500, 125))
Servo16Raw(landmarks) ==
    int(val_map(ZDiff(landmarks, 11, 15), -3 * ZDen, 3 * ZDen, 500, 125))

\* int(val_map(right_z_diff, -0.3, 0.3, 500, 900))
Servo8Raw(landmarks) ==
    int(val_map(ZDiff(landmarks, 12, 16), -3 * ZDen, 3 * ZDen, 500, 900))

\* calculate_shoulder_forward_servos: servos 16 and 8, always emitted.
calculate_shoulder_forward_servos(last, landmarks, width, height) ==
    IF ~Has(landmarks, {11, 12, 15, 16}) THEN Raised(last)
    ELSE
    LET s0 == Start(last)
        s1 == Emit(s0, 16, clamp_servo(Servo16Raw(landmarks)),
                   "R_shoulder_fwd")
        s2 == Emit(s1, 8, clamp_servo(Servo8Raw(landmarks)),
                   "L_shoulder_fwd")
    IN  Returned(s2)

\* The vector pairs <<v1, v2>> of the two hip side angles.
HipVectors(landmarks, width, height) ==
    LET left_hip == get_point(landmarks, 23, width, height)
        right_hip == get_point(landmarks, 24, width, height)
        left_knee == get_point(landmarks, 25, width, height)
        right_knee == get_point(landmarks, 26, width, height)
        left_hip_ref == <<left_hip[1], left_hip[2] + 100>>
        right_hip_ref == <<right_hip[1], right_hip[2] + 100>>
    IN  [left_hip |-> <<Sub(left_hip, left_hip_ref),
                        Sub(left_hip, left_knee)>>,
         right_hip |-> <<Sub(right_hip, right_hip_ref),
                         Sub(right_hip, right_knee)>>]

\* The two hip side angles of a frame.
HipAngles(landmarks, width, height) ==
    LET v == HipVectors(landmarks, width, height)
    IN  [left_hip_side_angle |-> Angle2(v.left_hip),
         right_hip_side_angle |-> Angle2(v.right_hip)]

\* clamp_servo(int(val_map(left_hip_side_angle, -45, 45, 450, 750)))
Servo4Candidate(angle) == clamp_servo(int(val_map(angle, -45, 45, 450, 750)))

\* clamp_servo(int(val_map(right_hip_side_angle, -45, 45, 250, 550)))
Servo12Candidate(angle) == clamp_servo(int(val_map(angle, -45, 45, 250, 550)))

\* clamp_servo(int(val_map(left_hip_z, -0.2, 0.2, 700, 300)))
Servo3Candidate(landmarks) ==
    clamp_servo(int(val_map(ZDiff(landmarks, 23, 25),
                            -2 * ZDen, 2 * ZDen, 700, 300)))

\* clamp_servo(int(val_map(right_hip_z, -0.2, 0.2, 300, 700)))
Servo11Candidate(landmarks) ==
    clamp_servo(int(val_map(ZDiff(landmarks, 24, 26),
                            -2 * ZDen, 2 * ZDen, 300, 700)))

\* calculate_hip_servos: servos 4 and 12 when their angle is defined, then
\* servos 3 and 11 from the depth differences.
calculate_hip_servos(last, landmarks, width, height) ==
    IF ~Has(landmarks, {23, 24, 25, 26}) THEN Raised(last)
    ELSE
    LET a == HipAngles(landmarks, width, height)
        s0 == Start(last)
        s1 == IF a.left_hip_side_angle # NoAngle
              THEN Emit(s0, 4, Servo4Candidate(a.left_hip_side_angle[1]),
                        "R_hip_side")
              ELSE s0
        s2 == IF a.right_hip_side_angle # NoAngle
              THEN Emit(s1, 12, Servo12Candidate(a.right_hip_side_angle[1]),
                        "L_hip_side")
              ELSE s1
        s3 == Emit(s2, 3, Servo3Candidate(landmarks), "R_hip_front")
        s4 == Emit(s3, 11, Servo11Candidate(landmarks), "L_hip_front")
    IN  Returned(s4)

\* The vector pairs <<v1, v2>> of the two knee angles.
KneeVectors(landmarks, width, height) ==
    LET left_hip == get_point(landmarks, 23, width, height)
        right_hip == get_point(landmarks, 24, width, height)
        left_knee == get_point(landmarks, 25, width, height)
        right_knee == get_point(landmarks, 26, width, height)
        left_ankle == get_point(landmarks, 27, width, height)
        right_ankle == get_point(landmarks, 28, width, height)
    IN  [left_knee |-> <<Sub(left_hip, left_knee),
                         Sub(left_ankle, left_knee)>>,
         right_knee |-> <<Sub(right_hip, right_knee),
                          Sub(right_ankle, right_knee)>>]

\* The two knee angles of a frame.
KneeAngles(landmarks, width, height) ==
    LET v == KneeVectors(landmarks, width, height)
    IN  [left_knee_angle |-> Angle2(v.left_knee),
         right_knee_angle |-> Angle2(v.right_knee)]

\* clamp_servo(int(val_map(abs(left_knee_angle), 90, 180, 150, 390)))
Servo2Candidate(angle) ==
    clamp_servo(int(val_map(Abs(angle), 90, 180, 150, 390)))

\* clamp_servo(int(val_map(abs(right_knee_angle), 90, 180, 850, 610)))
Servo10Candidate(angle) ==
    clamp_servo(int(val_map(Abs(angle), 90, 180, 850, 610)))

\* calculate_knee_servos: servos 2 and 10 when their angle is defined.
calculate_knee_servos(last, landmarks, width, height) ==
    IF ~Has(landmarks, {23, 24, 25, 26, 27, 28}) THEN Raised(last)
    ELSE
    LET a == KneeAngles(landmarks, width, height)
        s0 == Start(last)
        s1 == IF a.left_knee_angle # NoAngle
              THEN Emit(s0, 2, Servo2Candidate(a.left_knee_angle[1]),
                        "R_knee")
              ELSE s0
        s2 == IF a.right_knee_angle # NoAngle
              THEN Emit(s1, 10, Servo10Candidate(a.right_knee_angle[1]),
                        "L_knee")
              ELSE s1
    IN  Returned(s2)

\* commands.extend(part(...)): r is the call so far and n the part run on
\* r.last.  An exception in a part ends the call and loses the commands,
\* while the writes to last_servos made before it stay.
Extend(r, n) ==
    IF r.raised THEN r
    ELSE [last |-> n.last,
          commands |-> (IF n.raised THEN <<>> ELSE r.commands \o n.commands),
          raised |-> n.raised]

\* A part that is not run: no commands, memory untouched.
Skipped(last) == [last |-> last, commands |-> <<>>, raised |-> FALSE]

\* The one element of a singleton set.
TheOnly(S) == CHOOSE e \in S : TRUE

calculate_servo_commands_arms_twice(last, full_body, landmarks, width, height) ==
    TheOnly(
      {Extend(r3, IF full_body
                  THEN calculate_knee_servos(r3.last, landmarks, width, height)
                  ELSE Skipped(r3.last)) :
       r3 \in
      {Extend(r2, IF full_body
                  THEN calculate_hip_servos(r2.last, landmarks, width, height)
                  ELSE Skipped(r2.last)) :
       r2 \in
      {Extend(r1, calculate_shoulder_forward_servos(
                      r1.last, landmarks, width, height)) :
       r1 \in
      {Extend(r0, calculate_arm_servos(r0.last, landmarks, width, height)) :
       r0 \in
      {calculate_arm_servos(last, landmarks, width, height)}}}}})

calculate_servo_commands_all_parts(last, full_body, landmarks, width, height) ==
    TheOnly(
      {Extend(r3, calculate_knee_servos(r3.last, landmarks, width, height)) :
       r3 \in
      {Extend(r2, calculate_hip_servos(r2.last, landmarks, width, height)) :
       r2 \in
      {Extend(r1, calculate_shoulder_forward_servos(
                      r1.last, landmarks, width, height)) :
       r1 \in
      {calculate_arm_servos(last, landmarks, width, height)}}}})

\* calculate_servo_commands: arms (r1) and shoulder-forward (r2) always,
\* hips (r3) and knees (the result) in full-body mode.  (An empty list is
\* returned as None; both are the empty sequence here.)
calculate_servo_commands(last, full_body, landmarks, width, height) ==
    TheOnly(
      {Extend(r3, IF full_body
                  THEN calculate_knee_servos(r3.last, landmarks, width, height)
                  ELSE Skipped(r3.last)) :
       r3 \in
      {Extend(r2, IF full_body
                  THEN calculate_hip_servos(r2.last, landmarks, width, height)
                  ELSE Skipped(r2.last)) :
       r2 \in
      {Extend(r1, calculate_shoulder_forward_servos(
                      r1.last, landmarks, width, height)) :
       r1 \in
      {calculate_arm_servos(last, landmarks, width, height)}}}})

\* ---------------------------------------------------------------- inputs
Landmark(x, y, z) == [x |-> x, y |-> y, z |-> z]

\* Landmark indices the engine reads (arms 11..16, legs 23..28).
UsedIdx == {11, 12, 13, 14, 15, 16, 23, 24, 25, 26, 27, 28}

\* A standing pose with the arms half raised, as the mirrored camera image
\* shows it (y grows downward).
RestPose ==
    [i \in UsedIdx |->
        CASE i = 11 -> Landmark(3, 2, 0)
          [] i = 12 -> Landmark(2, 2, 0)
          [] i = 13 -> Landmark(7, 5, 0)
          [] i = 14 -> Landmark(1, 4, 0)
          [] i = 15 -> Landmark(7, 7, 0)
          [] i = 16 -> Landmark(1, 6, 0)
          [] i = 23 -> Landmark(3, 4, 0)
          [] i = 24 -> Landmark(2, 4, 0)
          [] i = 25 -> Landmark(3, 6, 0)
          [] i = 26 -> Landmark(2, 6, 0)
          [] i = 27 -> Landmark(3, 8, 0)
          [] OTHER  -> Landmark(2, 8, 0)]

\* Where a landmark may be instead of its rest position.
Moves ==
    {<<11, Landmark(XYDen, 2, 0)>>,  \* x = 1.0: on the right image border
     <<11, Landmark(3, 3, 0)>>,
     <<12, Landmark(0, 2, 0)>>,      \* x = 0.0: on the left image border
     <<13, Landmark(6, 4, 0)>>,      \* upper arm 3 degrees higher
     <<13, Landmark(8, 5, 0)>>,      \* upper arm 6 degrees higher
     <<13, Landmark(7, 7, 0)>>,      \* elbow on the wrist
     <<16, Landmark(1, 6, -1)>>,     \* wrist slightly forward
     <<16, Landmark(1, 6, -20)>>,    \* wrist far forward
     <<25, Landmark(3, 4, 0)>>,      \* knee on the hip
     <<25, Landmark(3, 6, 1)>>,      \* knee slightly back
     <<26, Landmark(3, 6, 0)>>,
     <<27, Landmark(3, 6, 0)>>,      \* ankle on the knee
     <<28, Landmark(2, 6, 0)>>}

Moved(pose, m) == [i \in DOMAIN pose |-> IF i = m[1] THEN m[2] ELSE pose[i]]

\* Poses: the rest pose with at most one landmark moved.
Poses == {RestPose} \cup {Moved(RestPose, m) : m \in Moves}

\* Lengths of the landmark list of a pose: the full 33, or cut before the
\* ankles (27), before the legs (17), or before the right shoulder (12).
Lengths == {33, 27, 17, 12}

\* The landmark list of a pose cut to n entries (indices 0..n-1).
Cut(pose, n) == [i \in {j \in DOMAIN pose : j < n} |-> pose[i]]

\* result.pose_landmarks: empty when no pose was detected, else one list.
Results == {<<>>} \cup {<<Cut(p, n)>> : p \in Poses, n \in Lengths}

Keys == {"none", "f", "q"}

ModeText(fb) == IF fb THEN "FULL BODY" ELSE "ARMS ONLY"

\* ----------------------------------------------------------------- state
VARIABLES
    full_body,       \* self.full_body
    last_servos,     \* self.last_servos
    prev_servos,     \* self.last_servos as it was when the frame arrived
    result,          \* the detector's result for the frame
    servo_commands,  \* the frame's commands (<<>> is None)
    mode_text,       \* the mode the frame was processed in
    prev_mode_text,  \* mode_text as it was when the frame arrived
    frame_count,     \* frames read so far
    repeated,        \* the frame equals the one before it, in the same mode
    status           \* "running", "stopped" (quit) or "raised" (exception)

vars == <<full_body, last_servos, prev_servos, result, servo_commands,
          mode_text, prev_mode_text, frame_count, repeated, status>>

Empty == [i \in {} |-> 0]

Init ==
    /\ full_body \in BOOLEAN
    /\ last_servos = Empty
    /\ prev_servos = Empty
    /\ result = <<>>
    /\ servo_commands = <<>>
    /\ mode_text = ModeText(full_body)
    /\ prev_mode_text = ModeText(full_body)
    /\ frame_count = 0
    /\ repeated = FALSE
    /\ status = "running"

\* The frame res arrives right after an equal frame, with the mode as it
\* was for that one.
SameAsBefore(res) ==
    frame_count > 0 /\ res = result /\ mode_text = ModeText(full_body)

\* The key read by cv2.waitKey at the end of an iteration.
HandleKey(key) ==
    /\ status' = IF key = "q" THEN "stopped" ELSE "running"
    /\ full_body' = IF key = "f" THEN ~full_body ELSE full_body

NoPoseFrame_clears(key) ==
    /\ status = "running"
    /\ frame_count < MaxFrames
    /\ frame_count' = frame_count + 1
    /\ result' = <<>>
    /\ repeated' = SameAsBefore(<<>>)
    /\ prev_servos' = last_servos
    /\ servo_commands' = <<>>
    /\ last_servos' = Empty
    /\ mode_text' = ModeText(full_body)
    /\ prev_mode_text' = mode_text
    /\ HandleKey(key)

\* One loop iteration whose frame shows no pose.
NoPoseFrame(key) ==
    /\ status = "running"
    /\ frame_count < MaxFrames
    /\ frame_count' = frame_count + 1
    /\ result' = <<>>
    /\ repeated' = SameAsBefore(<<>>)
    /\ prev_servos' = last_servos
    /\ servo_commands' = <<>>
    /\ last_servos' = last_servos
    /\ mode_text' = ModeText(full_body)
    /\ prev_mode_text' = mode_text
    /\ HandleKey(key)

PoseFrame_toggle_resets(res) ==
    /\ status = "running"
    /\ frame_count < MaxFrames
    /\ res # <<>>
    /\ \E r \in {calculate_servo_commands(last_servos, full_body, res[1],
                                          Width, Height)} :
           /\ ~r.raised
           /\ servo_commands' = r.commands
           /\ \E key \in Keys :
                  /\ HandleKey(key)
                  /\ last_servos' = IF key = "f" THEN Empty ELSE r.last
    /\ frame_count' = frame_count + 1
    /\ result' = res
    /\ repeated' = SameAsBefore(res)
    /\ prev_servos' = last_servos
    /\ mode_text' = ModeText(full_body)
    /\ prev_mode_text' = mode_text

\* One loop iteration whose frame shows a pose and is processed.
PoseFrame(res) ==
    /\ status = "running"
    /\ frame_count < MaxFrames
    /\ res # <<>>
    /\ \E r \in {calculate_servo_commands(last_servos, full_body, res[1],
                                          Width, Height)} :
           /\ ~r.raised
           /\ servo_commands' = r.commands
           /\ last_servos' = r.last
    /\ frame_count' = frame_count + 1
    /\ result' = res
    /\ repeated' = SameAsBefore(res)
    /\ prev_servos' = last_servos
    /\ mode_text' = ModeText(full_body)
    /\ prev_mode_text' = mode_text
    /\ \E key \in Keys : HandleKey(key)

\* One loop iteration in which calculate_servo_commands raises IndexError
\* (some landmark index is not in the list): the loop is left through its
\* finally block.
PoseFrameRaises(res) ==
    /\ status = "running"
    /\ frame_count < MaxFrames
    /\ res # <<>>
    /\ ~Has(res[1], UsedIdx)
    /\ \E r \in {calculate_servo_commands(last_servos, full_body, res[1],
                                          Width, Height)} :
           /\ r.raised
           /\ last_servos' = r.last
    /\ servo_commands' = <<>>
    /\ frame_count' = frame_count + 1
    /\ result' = res
    /\ repeated' = FALSE
    /\ prev_servos' = last_servos
    /\ status' = "raised"
    /\ UNCHANGED <<full_body, mode_text, prev_mode_text>>

Next ==
    \/ \E key \in Keys : NoPoseFrame(key)
    \/ \E res \in Results : PoseFrame(res)
    \/ \E res \in Results : PoseFrameRaises(res)

Spec == Init /\ [][Next]_vars

\* ------------------------------------------------------- what a frame asks
\* The value a frame's landmarks give servo_id before smoothing, as the
\* calculate_* methods compute it: <<c>>, or <<>> when the joint's angle
\* is None.
CandidateOf(landmarks, width, height, servo_id) ==
    CASE servo_id = 15 ->
           LET a == ArmAngles(landmarks, width, height).left_shoulder_angle
           IN  IF a = NoAngle THEN <<>> ELSE <<ArmCandidate(a[1])>>
      [] servo_id = 14 ->
           LET a == ArmAngles(landmarks, width, height).left_elbow_angle
           IN  IF a = NoAngle THEN <<>> ELSE <<ArmCandidate(a[1])>>
      [] servo_id = 7 ->
           LET a == ArmAngles(landmarks, width, height).right_shoulder_angle
           IN  IF a = NoAngle THEN <<>> ELSE <<ArmCandidate(a[1])>>
      [] servo_id = 6 ->
           LET a == ArmAngles(landmarks, width, height).right_elbow_angle
           IN  IF a = NoAngle THEN <<>> ELSE <<ArmCandidate(a[1])>>
      [] servo_id = 16 -> <<clamp_servo(Servo16Raw(landmarks))>>
      [] servo_id = 8 -> <<clamp_servo(Servo8Raw(landmarks))>>
      [] servo_id = 4 ->
           LET a == HipAngles(landmarks, width, height).left_hip_side_angle
           IN  IF a = NoAngle THEN <<>> ELSE <<Servo4Candidate(a[1])>>
      [] servo_id = 12 ->
           LET a == HipAngles(landmarks, width, height).right_hip_side_angle
           IN  IF a = NoAngle THEN <<>> ELSE <<Servo12Candidate(a[1])>>
      [] servo_id = 3 -> <<Servo3Candidate(landmarks)>>
      [] servo_id = 11 -> <<Servo11Candidate(landmarks)>>
      [] servo_id = 2 ->
           LET a == KneeAngles(landmarks, width, height).left_knee_angle
           IN  IF a = NoAngle THEN <<>> ELSE <<Servo2Candidate(a[1])>>
      [] servo_id = 10 ->
           LET a == KneeAngles(landmarks, width, height).right_knee_angle
           IN  IF a = NoAngle THEN <<>> ELSE <<Servo10Candidate(a[1])>>

\* The vector pair of the angle that drives a planar joint's servo.
JointVectors(landmarks, width, height, servo_id) ==
    CASE servo_id = 15 -> ArmVectors(landmarks, width, height).left_shoulder
      [] servo_id = 14 -> ArmVectors(landmarks, width, height).left_elbow
      [] servo_id = 7 -> ArmVectors(landmarks, width, height).right_shoulder
      [] servo_id = 6 -> ArmVectors(landmarks, width, height).right_elbow
      [] servo_id = 4 -> HipVectors(landmarks, width, height).left_hip
      [] servo_id = 12 -> HipVectors(landmarks, width, height).right_hip
      [] servo_id = 2 -> KneeVectors(landmarks, width, height).left_knee
      [] servo_id = 10 -> KneeVectors(landmarks, width, height).right_knee

\* Servos of the planar joints: shoulder side, elbow, hip side, knee.
PlanarServos == {15, 14, 7, 6, 4, 12, 2, 10}

\* Servos calculate_servo_commands computes in a mode.
ArmServos == {15, 14, 7, 6, 16, 8}
LegServos == {4, 12, 3, 11, 2, 10}
ComputedServos(fb) == IF fb THEN ArmServos \cup LegServos ELSE ArmServos

\* ----------------------------------------------------------- observations
Ids(commands) == {commands[i].servo_id : i \in 1..Len(commands)}

PositionOf(commands, servo_id) ==
    commands[CHOOSE i \in 1..Len(commands) :
                 commands[i].servo_id = servo_id].position

\* The last frame showed a pose and calculate_servo_commands returned.
Processed == result # <<>> /\ status # "raised"

\* The mode the last frame was processed in.
FullBodyUsed == mode_text = "FULL BODY"

\* The candidate of the last frame for a servo it commanded.
Cand(servo_id) == CandidateOf(result[1], Width, Height, servo_id)[1]

\* --------------------------------------------------------------- claims

\* C1: every command ever returned has 125 <= position <= 875, also when
\* it is re-emitted from the smoothing memory and when the joint's output
\* range goes beyond the limits.
C1_PositionWithinLimits ==
    \A i \in 1..Len(servo_commands) :
        /\ 125 <= servo_commands[i].position
        /\ servo_commands[i].position <= 875

\* C1 witness: servo 8 is asked for more than 875 (its range ends at 900),
\* its memory already holds 875, and 875 is emitted.
C1_Witness ==
    /\ Processed
    /\ 8 \in Ids(servo_commands)
    /\ Servo8Raw(result[1]) > 875
    /\ 8 \in DOMAIN prev_servos
    /\ prev_servos[8] = 875
    /\ PositionOf(servo_commands, 8) = 875

\* C2: the servo ids of a frame's commands lie in the tracked set of the
\* mode the frame was processed in, and in 1..16.
C2_IdsWithinMode ==
    /\ Ids(servo_commands) \subseteq 1..16
    /\ Ids(servo_commands) \subseteq
           (IF FullBodyUsed
            THEN {2, 3, 4, 6, 7, 8, 10, 11, 12, 14, 15, 16}
            ELSE {6, 7, 8, 14, 15, 16})

\* C2 witness: the second frame is the first one in arms-only mode after a
\* full-body frame that stored leg positions.
C2_Witness ==
    /\ Processed
    /\ frame_count = 2
    /\ ~FullBodyUsed
    /\ 3 \in DOMAIN prev_servos
    /\ Ids(servo_commands) = {6, 7, 8, 14, 15, 16}

\* C3: for a servo with a stored position P and a candidate C, the frame
\* emits P and keeps P when |P - C| < 25, and emits and stores C otherwise
\* (also at exactly 25).
C3_SmoothingLaw ==
    Processed =>
        \A i \in 1..Len(servo_commands) :
            LET id == servo_commands[i].servo_id
                C == Cand(id)
            IN  id \in DOMAIN prev_servos =>
                    IF Abs(prev_servos[id] - C) < 25
                    THEN /\ servo_commands[i].position = prev_servos[id]
                         /\ last_servos[id] = prev_servos[id]
                    ELSE /\ servo_commands[i].position = C
                         /\ last_servos[id] = C

\* C3 witness: in one frame a servo moves by exactly 25 and takes the new
\* value, and another is asked to move by less and keeps the old one.
C3_Witness ==
    /\ Processed
    /\ \E id \in Ids(servo_commands) \cap DOMAIN prev_servos :
           /\ Abs(prev_servos[id] - Cand(id)) = 25
           /\ PositionOf(servo_commands, id) = Cand(id)
           /\ last_servos[id] = Cand(id)
    /\ \E id \in Ids(servo_commands) \cap DOMAIN prev_servos :
           /\ Cand(id) # prev_servos[id]
           /\ Abs(prev_servos[id] - Cand(id)) < 25
           /\ PositionOf(servo_commands, id) = prev_servos[id]

\* C4: the memory starts empty, and the first candidate computed for a
\* servo is emitted as it is and stored.
C4_FirstObservation ==
    /\ frame_count = 0 => last_servos = Empty
    /\ Processed =>
           \A i \in 1..Len(servo_commands) :
               LET id == servo_commands[i].servo_id
               IN  id \notin DOMAIN prev_servos =>
                       /\ servo_commands[i].position = Cand(id)
                       /\ id \in DOMAIN last_servos
                       /\ last_servos[id] = Cand(id)

\* C4 witness: servo 3 gets its first candidate, 515, in a frame later
\* than the first; 515 is within 25 of the neutral 500 and is emitted.
C4_Witness ==
    /\ Processed
    /\ frame_count >= 2
    /\ 3 \in Ids(servo_commands)
    /\ 3 \notin DOMAIN prev_servos
    /\ Cand(3) = 515
    /\ PositionOf(servo_commands, 3) = 515

\* C5: a frame processed right after an equal frame, in the same mode,
\* gives the same commands and leaves the memory as the first left it.
C5_Idempotence ==
    [][(/\ frame_count > 0
        /\ result # <<>>
        /\ result' = result
        /\ mode_text = ModeText(full_body)
        /\ frame_count' = frame_count + 1)
       => (/\ servo_commands' = servo_commands
           /\ last_servos' = last_servos)]_vars

\* C5 witness: the repeated frame asks a servo for a value its memory does
\* not hold, so its first pass had not brought the memory to the frame.
C5_Witness ==
    /\ Processed
    /\ repeated
    /\ \E id \in Ids(servo_commands) :
           PositionOf(servo_commands, id) # Cand(id)

\* Landmark lists that differ from l at most in the landmark idx.
VariantsAt(l, idx) ==
    {r[1] : r \in {q \in Results :
                      /\ q # <<>>
                      /\ DOMAIN q[1] = DOMAIN l
                      /\ \A i \in DOMAIN l \ {idx} : q[1][i] = l[i]}}

\* Two command lists agree on a servo: commanded in both or in neither,
\* and at the same position.
SameCommand(c1, c2, servo_id) ==
    /\ servo_id \in Ids(c1) <=> servo_id \in Ids(c2)
    /\ servo_id \in Ids(c1) \cap Ids(c2) =>
           PositionOf(c1, servo_id) = PositionOf(c2, servo_id)

\* The mode calculate_servo_commands ran in for the last frame (mode_text
\* is not written when it raises).
ModeOfFrame == IF status = "raised" THEN full_body ELSE FullBodyUsed

\* Landmark indices calculate_servo_commands reads in a mode.
NeededIdx(fb) == IF fb THEN UsedIdx ELSE {11, 12, 13, 14, 15, 16}

\* C6 as stated: a frame that differs from the processed one only in
\* landmark 11, processed from the same memory in the same mode, gives the
\* same command (present or absent, same position) for every servo but the
\* right shoulder's (15 side, 16 forward); in particular for 7 and 8.
C6_MirrorShoulder ==
    Processed =>
        \A alt \in VariantsAt(result[1], 11) :
            \A id \in (1..16) \ {15, 16} :
                SameCommand(servo_commands,
                            calculate_servo_commands(prev_servos, FullBodyUsed,
                                                     alt, Width, Height).commands,
                            id)

\* C7: a planar joint whose angle has a zero vector gets None from
\* vector_2d_angle and no command in the frame's output.
C7_DegenerateOmitted ==
    Processed =>
        \A id \in PlanarServos \cap ComputedServos(FullBodyUsed) :
            LET vs == JointVectors(result[1], Width, Height, id)
            IN  IsZero(vs[1]) \/ IsZero(vs[2]) =>
                    /\ vector_2d_angle(vs[1], vs[2]) = NoAngle
                    /\ id \notin Ids(servo_commands)

\* C7 witness: the left knee angle has a zero vector, servo 2 is not
\* commanded and the frame's other commands are there.
C7_Witness ==
    /\ Processed
    /\ FullBodyUsed
    /\ IsZero(JointVectors(result[1], Width, Height, 2)[2])
    /\ 2 \notin Ids(servo_commands)
    /\ 10 \in Ids(servo_commands)

\* C8 as stated: every servo computed in the frame's mode whose own signal
\* is defined is commanded, whatever the other joints' angles are.
C8_OnlyOwnJointSkipped ==
    Processed =>
        \A id \in ComputedServos(FullBodyUsed) :
            CandidateOf(result[1], Width, Height, id) # <<>> =>
                id \in Ids(servo_commands)

\* C9 as stated: a frame that lacks a landmark its mode reads does not
\* make calculate_servo_commands raise, and the shoulder-forward commands,
\* whose landmarks are there, are returned.
C9_MissingLandmarkTolerated ==
    (result # <<>> /\ ~Has(result[1], NeededIdx(ModeOfFrame))) =>
        /\ status # "raised"
        /\ Has(result[1], {11, 12, 15, 16}) =>
               {16, 8} \subseteq Ids(servo_commands)

\* C10: a frame without a pose yields no command and leaves last_servos as
\* it was.
C10_NoPoseNoEffect ==
    (frame_count > 0 /\ result = <<>>) =>
        /\ servo_commands = <<>>
        /\ last_servos = prev_servos

\* C10 witness: a frame without a pose arrives when the memory holds
\* positions, and they are all still there.
C10_Witness ==
    /\ frame_count >= 2
    /\ result = <<>>
    /\ servo_commands = <<>>
    /\ last_servos # Empty
    /\ last_servos = prev_servos

\* The iteration that just ended toggled the mode (key 'f').
Toggled == frame_count > 0 /\ status # "raised" /\ full_body # FullBodyUsed

\* C11: an iteration that toggles the mode leaves last_servos as the
\* frame's processing in the old mode made it; an arms-only frame commands
\* no hip or knee servo and keeps their stored entries; and the first
\* full-body frame after arms-only ones smooths each leg candidate against
\* the entry stored before.
C11_ModeSwitchKeepsState ==
    /\ Toggled =>
           last_servos =
               IF result = <<>> THEN prev_servos
               ELSE calculate_servo_commands(prev_servos, FullBodyUsed,
                                             result[1], Width, Height).last
    /\ (Processed /\ ~FullBodyUsed) =>
           \A id \in LegServos :
               /\ id \notin Ids(servo_commands)
               /\ id \in DOMAIN prev_servos =>
                      /\ id \in DOMAIN last_servos
                      /\ last_servos[id] = prev_servos[id]
    /\ (Processed /\ FullBodyUsed /\ prev_mode_text = "ARMS ONLY") =>
           \A id \in LegServos \cap Ids(servo_commands) \cap DOMAIN prev_servos :
               PositionOf(servo_commands, id) =
                   IF Abs(prev_servos[id] - Cand(id)) < 25
                   THEN prev_servos[id] ELSE Cand(id)

\* C11 witness: the third frame is the first full-body one after an
\* arms-only iteration; servo 3 was stored at 500 before, is asked for 515
\* and stays at 500; the iteration toggles the mode again.
C11_Witness ==
    /\ Processed
    /\ frame_count = 3
    /\ FullBodyUsed
    /\ prev_mode_text = "ARMS ONLY"
    /\ 3 \in DOMAIN prev_servos
    /\ prev_servos[3] = 500
    /\ Cand(3) = 515
    /\ PositionOf(servo_commands, 3) = 500
    /\ Toggled

\* C12 as stated: at most 6 commands from an arms-only frame and at most
\* 10 from a full-body frame.
C12_AtMostSixOrTen ==
    Processed => Len(servo_commands) <= (IF FullBodyUsed THEN 10 ELSE 6)

\* C12: an arms-only frame gives at most 6 commands (servos 15, 7, 14, 6,
\* 16, 8) and a full-body frame at most 12 (these and 4, 12, 3, 11, 2,
\* 10), each servo commanded at most once.
C12_AtMostSixOrTwelve ==
    Processed =>
        /\ Len(servo_commands) <= (IF FullBodyUsed THEN 12 ELSE 6)
        /\ Cardinality(Ids(servo_commands)) = Len(servo_commands)
        /\ Ids(servo_commands) \subseteq ComputedServos(FullBodyUsed)

\* C12 witness: a full-body frame commands all twelve servos.
C12_Witness ==
    /\ Processed
    /\ FullBodyUsed
    /\ Len(servo_commands) = 12
    /\ Ids(servo_commands) = ArmServos \cup LegServos

\* C13 as stated: last_servos never loses an id, and every stored value is
\* the position of the latest command emitted for its servo: the frame's
\* command if it has one, else the value stored before the frame, which
\* by the same rule was the latest emitted then.
C13_StoredIsLastEmitted ==
    /\ DOMAIN prev_servos \subseteq DOMAIN last_servos
    /\ \A id \in DOMAIN last_servos :
           IF id \in Ids(servo_commands)
           THEN last_servos[id] = PositionOf(servo_commands, id)
           ELSE /\ id \in DOMAIN prev_servos
                /\ last_servos[id] = prev_servos[id]

\* Landmarks of the person's left and right side as the camera names them,
\* and the servos of the robot's right and left side.
LeftIdx == {11, 13, 15, 23, 25, 27}
RightIdx == {12, 14, 16, 24, 26, 28}
RightServos == {2, 3, 4, 14, 15, 16}
LeftServos == {6, 7, 8, 10, 11, 12}

\* Landmark lists that differ from l at most in the landmarks idxs.
VariantsOn(l, idxs) ==
    {r[1] : r \in {q \in Results :
                      /\ q # <<>>
                      /\ DOMAIN q[1] = DOMAIN l
                      /\ \A i \in DOMAIN l \ idxs : q[1][i] = l[i]}}

\* The value the code computes for servo_id before smooth_servo: the arm
\* joints' values are computed only when all four arm angles are defined.
ComputedCandidate(landmarks, width, height, servo_id) ==
    IF servo_id \in {15, 14, 7, 6}
    THEN LET a == ArmAngles(landmarks, width, height)
         IN  IF /\ a.left_shoulder_angle # NoAngle
                /\ a.left_elbow_angle # NoAngle
                /\ a.right_shoulder_angle # NoAngle
                /\ a.right_elbow_angle # NoAngle
             THEN CandidateOf(landmarks, width, height, servo_id)
             ELSE <<>>
    ELSE CandidateOf(landmarks, width, height, servo_id)

\* C14 as stated: a frame that differs from the processed one only in
\* left landmarks gives every robot-left servo the same candidate before
\* smoothing, and one that differs only in right landmarks gives every
\* robot-right servo the same candidate.
C14_MirrorRouting ==
    Processed =>
        /\ \A alt \in VariantsOn(result[1], LeftIdx) :
               \A id \in LeftServos \cap ComputedServos(FullBodyUsed) :
                   ComputedCandidate(alt, Width, Height, id) =
                       ComputedCandidate(result[1], Width, Height, id)
        /\ \A alt \in VariantsOn(result[1], RightIdx) :
               \A id \in RightServos \cap ComputedServos(FullBodyUsed) :
                   ComputedCandidate(alt, Width, Height, id) =
                       ComputedCandidate(result[1], Width, Height, id)

\* C15: every emitted position is less than 25 away from the candidate
\* the same frame computed for its servo.
C15_BoundedLag ==
    Processed =>
        \A i \in 1..Len(servo_commands) :
            Abs(servo_commands[i].position - Cand(servo_commands[i].servo_id))
                < 25

\* C15 witness: servo 15, stored at 650, is asked for 637 in two frames
\* running and is held at 650 in both.
C15_Witness ==
    /\ Processed
    /\ frame_count = 3
    /\ repeated
    /\ 15 \in Ids(servo_commands)
    /\ Cand(15) = 637
    /\ prev_servos[15] = 650
    /\ PositionOf(servo_commands, 15) = 650
    /\ last_servos[15] = 650

\* C16 as stated: a servo without a command in the frame's output has the
\* entry in last_servos it had before the frame, or none if it had none.
C16_OmittedKeepsEntry ==
    (frame_count > 0 /\ result # <<>>) =>
        \A id \in (1..16) \ Ids(servo_commands) :
            IF id \in DOMAIN prev_servos
            THEN id \in DOMAIN last_servos /\ last_servos[id] = prev_servos[id]
            ELSE id \notin DOMAIN last_servos

====
